---- MODULE Spec2Model ----
(***************************************************************************)
(* Model of src/app.js: the discounted cash-flow engine (buildCashflows,   *)
(* npv, discountedCashflows, irr, paybackPeriod) and the form handlers     *)
(* around it (readInputs, writeInputs, computeAndRender, saveScenario,     *)
(* loadScenario, resetDefaults, applyCapex10, applyEnergyDown20,           *)
(* applyTaxZero).                                                          *)
(*                                                                         *)
(* Number model.  The program computes with JavaScript numbers.  Here a    *)
(* finite number is an exact rational; the non-finite values NaN and       *)
(* +/-Infinity are kept as values of their own and propagate as in the     *)
(* source (x/0, Infinity - Infinity, isFinite).  Rounding of binary        *)
(* floating point is not modelled: every finite result is the exact value  *)
(* of the source expression.  Integers are arbitrary-precision (sequences  *)
(* of limbs), because the bisection of irr halves an interval 120 times.   *)
(***************************************************************************)
EXTENDS Integers, Sequences, FiniteSets, TLC

(***************************************************************************)
(* Natural numbers of any size: little-endian sequences of limbs in        *)
(* 0..Base-1 without leading zero limbs; <<>> is zero.                     *)
(***************************************************************************)
Base == 100 * 100

Limb(a, j) == IF j <= Len(a) THEN a[j] ELSE 0

RECURSIVE MTrim(_)
MTrim(a) ==
  IF a = <<>> THEN a
  ELSE IF a[Len(a)] = 0 THEN MTrim(SubSeq(a, 1, Len(a) - 1))
  ELSE a

RECURSIVE MAddFrom(_, _, _, _, _)
MAddFrom(a, b, j, c, acc) ==
  IF j > Len(a) /\ j > Len(b)
  THEN IF c = 0 THEN acc ELSE Append(acc, c)
  ELSE LET x == Limb(a, j) + Limb(b, j) + c
       IN MAddFrom(a, b, j + 1, x \div Base, Append(acc, x % Base))

MAdd(a, b) == MAddFrom(a, b, 1, 0, <<>>)

\* a - b for a >= b
RECURSIVE MSubFrom(_, _, _, _, _)
MSubFrom(a, b, j, br, acc) ==
  IF j > Len(a) THEN acc
  ELSE LET x == a[j] - Limb(b, j) - br
       IN IF x < 0
          THEN MSubFrom(a, b, j + 1, 1, Append(acc, x + Base))
          ELSE MSubFrom(a, b, j + 1, 0, Append(acc, x))

MSub(a, b) == MTrim(MSubFrom(a, b, 1, 0, <<>>))

RECURSIVE MCmpAt(_, _, _)
MCmpAt(a, b, j) ==
  IF j = 0 THEN 0
  ELSE IF a[j] > b[j] THEN 1
  ELSE IF a[j] < b[j] THEN -1
  ELSE MCmpAt(a, b, j - 1)

\* -1, 0, 1 as a < b, a = b, a > b
MCmp(a, b) ==
  IF Len(a) > Len(b) THEN 1
  ELSE IF Len(a) < Len(b) THEN -1
  ELSE MCmpAt(a, b, Len(a))

\* a * k for a limb-sized k (0 <= k < Base)
RECURSIVE MMulSmallFrom(_, _, _, _, _)
MMulSmallFrom(a, k, j, c, acc) ==
  IF j > Len(a)
  THEN IF c = 0 THEN acc ELSE Append(acc, c)
  ELSE LET x == a[j] * k + c
       IN MMulSmallFrom(a, k, j + 1, x \div Base, Append(acc, x % Base))

MMulSmall(a, k) == IF k = 0 \/ a = <<>> THEN <<>> ELSE MMulSmallFrom(a, k, 1, 0, <<>>)

\* a * Base^j
MShift(a, j) == IF a = <<>> THEN a ELSE [x \in 1..j |-> 0] \o a

RECURSIVE MMulFrom(_, _, _, _)
MMulFrom(a, b, j, acc) ==
  IF j > Len(b) THEN acc
  ELSE MMulFrom(a, b, j + 1, MAdd(acc, MShift(MMulSmall(a, b[j]), j - 1)))

MMul(a, b) ==
  IF Len(a) >= Len(b) THEN MMulFrom(a, b, 1, <<>>) ELSE MMulFrom(b, a, 1, <<>>)

MOne == <<1>>

RECURSIVE MPow(_, _)
MPow(a, t) == IF t = 0 THEN MOne ELSE MMul(MPow(a, t - 1), a)

RECURSIVE MFromNat(_)
MFromNat(n) == IF n = 0 THEN <<>> ELSE <<n % Base>> \o MFromNat(n \div Base)

\* a * 2^j
RECURSIVE MTimesPow2(_, _)
MTimesPow2(a, j) ==
  IF j = 0 THEN a
  ELSE IF j >= 13 THEN MTimesPow2(MMulSmall(a, 8192), j - 13)
  ELSE MTimesPow2(MAdd(a, a), j - 1)

(***************************************************************************)
(* Integers of any size: a sign s in {-1, 0, 1} and a magnitude m.         *)
(***************************************************************************)
BZero == [s |-> 0, m |-> <<>>]

BMk(sg, mag) == IF mag = <<>> \/ sg = 0 THEN BZero ELSE [s |-> sg, m |-> mag]

BFromInt(n) ==
  IF n = 0 THEN BZero
  ELSE IF n > 0 THEN [s |-> 1, m |-> MFromNat(n)]
  ELSE [s |-> -1, m |-> MFromNat(-n)]

BOne == BFromInt(1)

BNeg(x) == [s |-> -x.s, m |-> x.m]

BAdd(x, y) ==
  IF x.s = 0 THEN y
  ELSE IF y.s = 0 THEN x
  ELSE IF x.s = y.s THEN [s |-> x.s, m |-> MAdd(x.m, y.m)]
  ELSE LET c == MCmp(x.m, y.m)
       IN IF c = 0 THEN BZero
          ELSE IF c > 0 THEN [s |-> x.s, m |-> MSub(x.m, y.m)]
          ELSE [s |-> y.s, m |-> MSub(y.m, x.m)]

BSub(x, y) == BAdd(x, BNeg(y))

BMul(x, y) ==
  IF x.s = 0 \/ y.s = 0 THEN BZero ELSE [s |-> x.s * y.s, m |-> MMul(x.m, y.m)]

\* x * mag for a magnitude
BTimesM(x, mag) == IF x.s = 0 THEN BZero ELSE BMk(x.s, MMul(x.m, mag))

\* -1, 0, 1 as x < y, x = y, x > y
BCmp(x, y) == BSub(x, y).s

\* x * 10^p
RECURSIVE BTimesPow10(_, _)
BTimesPow10(x, p) ==
  IF p = 0 \/ x.s = 0 THEN x
  ELSE IF p >= 4 THEN BTimesPow10([s |-> x.s, m |-> MShift(x.m, 1)], p - 4)
  ELSE BTimesPow10([s |-> x.s, m |-> MMulSmall(x.m, 10)], p - 1)

(***************************************************************************)
(* JavaScript number values.  A finite value is n / b^e (n an integer, b   *)
(* a positive magnitude); k tells finite from NaN and +/-Infinity (the     *)
(* sign of an infinity is the sign of n).                                  *)
(***************************************************************************)
VFin(n, b, e) == [k |-> "fin", n |-> n, b |-> IF e = 0 THEN MOne ELSE b, e |-> e]

VInt(n) == VFin(n, MOne, 0)

VNaN == [k |-> "nan", n |-> BZero, b |-> MOne, e |-> 0]

VInf(sg) == [k |-> "inf", n |-> BFromInt(sg), b |-> MOne, e |-> 0]

VZero == VInt(BZero)

isFinite(v) == v.k = "fin"

VDen(v) == MPow(v.b, v.e)

\* sign of a finite or infinite value
VSign(v) == v.n.s

VNeg(v) == [v EXCEPT !.n = BNeg(v.n)]

\* x + y of the source, for values x and y
VAdd(x, y) ==
  IF x.k = "nan" \/ y.k = "nan" THEN VNaN
  ELSE IF x.k = "inf"
       THEN (IF y.k = "inf" /\ y.n.s # x.n.s THEN VNaN ELSE x)
  ELSE IF y.k = "inf" THEN y
  ELSE IF x.e = 0 THEN VFin(BAdd(BTimesM(x.n, VDen(y)), y.n), y.b, y.e)
  ELSE IF y.e = 0 THEN VFin(BAdd(x.n, BTimesM(y.n, VDen(x))), x.b, x.e)
  ELSE IF x.b = y.b
       THEN (IF x.e >= y.e
             THEN VFin(BAdd(x.n, BTimesM(y.n, MPow(x.b, x.e - y.e))), x.b, x.e)
             ELSE VFin(BAdd(BTimesM(x.n, MPow(x.b, y.e - x.e)), y.n), x.b, y.e))
  ELSE VFin(BAdd(BTimesM(x.n, VDen(y)), BTimesM(y.n, VDen(x))),
            MMul(VDen(x), VDen(y)), 1)

\* -1, 0, 1 as x < y, x = y, x > y, for finite x and y
VCmp(x, y) == BCmp(BTimesM(x.n, VDen(y)), BTimesM(y.n, VDen(x)))

\* x === y of the source (NaN equals nothing)
VEq(x, y) ==
  IF x.k = "nan" \/ y.k = "nan" THEN FALSE
  ELSE IF x.k = "inf" \/ y.k = "inf" THEN x.k = y.k /\ x.n.s = y.n.s
  ELSE VCmp(x, y) = 0

\* the same value, NaN included (what the display shows)
VSame(x, y) == (x.k = "nan" /\ y.k = "nan") \/ VEq(x, y)

\* Math.abs(x) < 10^-p for a finite x
VAbsBelow(x, p) == MCmp(BTimesPow10(x.n, p).m, VDen(x)) < 0

\* a / b of the source, for integers a and b
VQuot(a, b) ==
  IF b.s = 0 THEN (IF a.s = 0 THEN VNaN ELSE VInf(a.s))
  ELSE VFin(BMk(a.s * b.s, a.m), b.m, 1)

(***************************************************************************)
(* Rates.  A finite rate is n / (10^4 * 2^p): the decimal rates of the     *)
(* source (-0.9999, 10.0, 50.0, percent / 100) and their midpoints.        *)
(***************************************************************************)
RFin(n, p) == [k |-> "fin", n |-> n, p |-> p]

RNaN == [k |-> "nan", n |-> BZero, p |-> 0]

\* 10^4 * 2^p
RDen(p) == MShift(MTimesPow2(MOne, p), 1)

\* the numerator of r over 10^4 * 2^p, p >= r.p
RAlign(r, p) == BMk(r.n.s, MTimesPow2(r.n.m, p - r.p))

RMaxP(a, b) == IF a.p >= b.p THEN a.p ELSE b.p

RAdd(a, b) == RFin(BAdd(RAlign(a, RMaxP(a, b)), RAlign(b, RMaxP(a, b))), RMaxP(a, b))

RSub(a, b) == RFin(BSub(RAlign(a, RMaxP(a, b)), RAlign(b, RMaxP(a, b))), RMaxP(a, b))

RHalf(r) == RFin(r.n, r.p + 1)

\* r * 2^j
RTimesPow2(r, j) == RFin(BMk(r.n.s, MTimesPow2(r.n.m, j)), r.p)

\* -1, 0, 1 as a < b, a = b, a > b
RCmp(a, b) == BCmp(RAlign(a, RMaxP(a, b)), RAlign(b, RMaxP(a, b)))

\* a rate given in ten-thousandths
RDec4(n) == RFin(BFromInt(n), 0)

(***************************************************************************)
(* npv, discountedCashflows  (src/app.js 9-16, 76-78)                      *)
(***************************************************************************)
\* cf / Math.pow(1 + rate, t): with 1 + rate = X / D the value is
\* cf * D^t / X^t; pow(x, 0) is 1 for every x, and pow(0, t) is 0.
Discounted(cf, rate, t) ==
  IF t = 0 THEN VInt(cf)
  ELSE IF rate.k = "nan" THEN VNaN
  ELSE LET D == RDen(rate.p)
           X == BAdd(rate.n, [s |-> 1, m |-> D])
       IN IF X.s = 0 THEN VQuot(cf, BZero)
          ELSE VFin(BMk(IF X.s < 0 /\ t % 2 = 1 THEN -cf.s ELSE cf.s,
                        MMul(cf.m, MPow(D, t))),
                    X.m, t)

RECURSIVE NpvFrom(_, _, _, _)
NpvFrom(rate, cashflows, t, s) ==
  IF t >= Len(cashflows) THEN s
  ELSE NpvFrom(rate, cashflows, t + 1, VAdd(s, Discounted(cashflows[t + 1], rate, t)))

npv(rate, cashflows) == NpvFrom(rate, cashflows, 0, VZero)

\* discountedCashflows with the periods counted from 1
discountedCashflowsFromOne(rate, cashflows) ==
  [j \in 1..Len(cashflows) |-> Discounted(cashflows[j], rate, j)]

discountedCashflows(rate, cashflows) ==
  [j \in 1..Len(cashflows) |-> Discounted(cashflows[j], rate, j - 1)]

(***************************************************************************)
(* irr  (src/app.js 18-54)                                                 *)
(***************************************************************************)
IrrLo == RDec4(-9999)

IrrHi == RDec4(100000)

IrrHiWide == RDec4(500000)

MaxIter == 120

TolDigits == 8

\* the sign of x * y, for finite x and y
SignOfProduct(x, y) == VSign(x) * VSign(y)

IrrState(pc, l, h, fl, fh, n, r) ==
  [pc |-> pc, lo |-> l, hi |-> h, flo |-> fl, fhi |-> fh, i |-> n, ret |-> r]

\* lines 21-38: the bracket and its checks
IrrStart(cashflows) ==
  LET fl == npv(IrrLo, cashflows)
      fh == npv(IrrHi, cashflows)
      fw == npv(IrrHiWide, cashflows)
  IN IF ~isFinite(fl) \/ ~isFinite(fh)
     THEN IrrState("ret28", IrrLo, IrrHi, fl, fh, 0, RNaN)
     ELSE IF VSign(fl) = 0 THEN IrrState("ret29", IrrLo, IrrHi, fl, fh, 0, IrrLo)
     ELSE IF VSign(fh) = 0 THEN IrrState("ret30", IrrLo, IrrHi, fl, fh, 0, IrrHi)
     ELSE IF SignOfProduct(fl, fh) > 0
          THEN (IF ~isFinite(fw) \/ SignOfProduct(fl, fw) > 0
                THEN IrrState("ret37", IrrLo, IrrHiWide, fl, fw, 0, RNaN)
                ELSE IrrState("loop", IrrLo, IrrHiWide, fl, fw, 0, RNaN))
     ELSE IrrState("loop", IrrLo, IrrHi, fl, fh, 0, RNaN)

Mid(l, h) == RHalf(RAdd(l, h))

\* lines 45-51: the narrowing step, for a midpoint mid with f(mid) = fmid
IrrNarrowStale(st, mid, fmid) ==
  IF SignOfProduct(st.flo, fmid) <= 0
  THEN [st EXCEPT !.hi = mid, !.i = st.i + 1]
  ELSE [st EXCEPT !.lo = mid, !.flo = fmid, !.i = st.i + 1]

IrrNarrow(st, mid, fmid) ==
  IF SignOfProduct(st.flo, fmid) <= 0
  THEN [st EXCEPT !.hi = mid, !.fhi = fmid, !.i = st.i + 1]
  ELSE [st EXCEPT !.lo = mid, !.flo = fmid, !.i = st.i + 1]

\* line 44: Math.abs(fmid) < 1e-8
IrrConvergedLoose(fmid) == VAbsBelow(fmid, 2)

IrrConverged(fmid) == VAbsBelow(fmid, TolDigits)

\* lines 41-51: one pass of the loop body
IrrIterate(cashflows, st) ==
  LET mid == Mid(st.lo, st.hi)
      fmid == npv(mid, cashflows)
  IN IF ~isFinite(fmid) THEN [st EXCEPT !.pc = "ret43", !.ret = RNaN]
     ELSE IF IrrConverged(fmid) THEN [st EXCEPT !.pc = "ret44", !.ret = mid]
     ELSE IrrNarrow(st, mid, fmid)

\* line 53
IrrExhausted(st) == [st EXCEPT !.pc = "ret53", !.ret = Mid(st.lo, st.hi)]

\* line 40: i < 120
IrrLoopTestOffByOne(st) == st.i <= MaxIter

IrrLoopTest(st) == st.i < MaxIter

IrrStep(cashflows, st) ==
  IF IrrLoopTest(st) THEN IrrIterate(cashflows, st) ELSE IrrExhausted(st)

RECURSIVE IrrRun(_, _)
IrrRun(cashflows, st) ==
  IF st.pc # "loop" THEN st ELSE IrrRun(cashflows, IrrStep(cashflows, st))

irr(cashflows) == IrrRun(cashflows, IrrStart(cashflows)).ret

(***************************************************************************)
(* paybackPeriod  (src/app.js 56-74)                                       *)
(***************************************************************************)
PbState(pc, t, cum, prev, r) ==
  [pc |-> pc, t |-> t, cum |-> cum, prev |-> prev, ret |-> r]

\* lines 58-60
PbStart(cashflows) ==
  IF Len(cashflows) = 0 THEN PbState("ret59", 0, BZero, BZero, VNaN)
  ELSE IF cashflows[1].s >= 0 THEN PbState("ret60", 0, BZero, BZero, VZero)
  ELSE PbState("loop", 0, BZero, BZero, VNaN)

\* PbIterate with (t - 1) + frac taken as t + frac
PbIterateWholePeriod(cashflows, st) ==
  LET prev == st.cum
      cum == BAdd(prev, cashflows[st.t + 1])
      cf == cashflows[st.t + 1]
      frac == VQuot(BSub(BZero, prev), cf)
  IN IF cum.s >= 0
     THEN (IF st.t = 0
           THEN PbState("ret67", st.t, cum, prev, VZero)
           ELSE PbState("ret70", st.t, cum, prev, VAdd(VInt(BFromInt(st.t)), frac)))
     ELSE PbState("loop", st.t + 1, cum, prev, VNaN)

\* PbIterate with cum >= 0 taken as cum > 0
PbIterateStrict(cashflows, st) ==
  LET prev == st.cum
      cum == BAdd(prev, cashflows[st.t + 1])
      cf == cashflows[st.t + 1]
      frac == VQuot(BSub(BZero, prev), cf)
  IN IF cum.s > 0
     THEN (IF st.t = 0
           THEN PbState("ret67", st.t, cum, prev, VZero)
           ELSE PbState("ret70", st.t, cum, prev, VAdd(VInt(BFromInt(st.t - 1)), frac)))
     ELSE PbState("loop", st.t + 1, cum, prev, VNaN)

\* lines 63-71: one pass of the loop body, t < cashflows.length
PbIterate(cashflows, st) ==
  LET prev == st.cum
      cum == BAdd(prev, cashflows[st.t + 1])
      cf == cashflows[st.t + 1]
      frac == VQuot(BSub(BZero, prev), cf)
  IN IF cum.s >= 0
     THEN (IF st.t = 0
           THEN PbState("ret67", st.t, cum, prev, VZero)
           ELSE PbState("ret70", st.t, cum, prev, VAdd(VInt(BFromInt(st.t - 1)), frac)))
     ELSE PbState("loop", st.t + 1, cum, prev, VNaN)

\* line 73
PbNever(st) == [st EXCEPT !.pc = "ret73", !.ret = VNaN]

PbStep(cashflows, st) ==
  IF st.t < Len(cashflows) THEN PbIterate(cashflows, st) ELSE PbNever(st)

RECURSIVE PbRun(_, _)
PbRun(cashflows, st) ==
  IF st.pc # "loop" THEN st ELSE PbRun(cashflows, PbStep(cashflows, st))

paybackPeriod(cashflows) == PbRun(cashflows, PbStart(cashflows)).ret

(***************************************************************************)
(* buildCashflows  (src/app.js 81-100)                                     *)
(***************************************************************************)
\* Numbers read from the form: [k, n, d] is n/d when k = "fin"; the other
\* kinds are NaN ("nan"), +/-Infinity ("inf", sign n), and the values
\* undefined, null and a non-numeric string that a parsed record can hold.
JFin(n, d) == [k |-> "fin", n |-> n, d |-> d]

JNaN == [k |-> "nan", n |-> 0, d |-> 1]

JInf(sg) == [k |-> "inf", n |-> sg, d |-> 1]

JUndefined == [k |-> "undef", n |-> 0, d |-> 1]

JNull == [k |-> "null", n |-> 0, d |-> 1]

JString == [k |-> "str", n |-> 0, d |-> 1]

\* a whole amount as an integer of any size
Big(x) == CASE x.k = "fin" /\ x.d = 1 -> BFromInt(x.n)

\* the loop of lines 96-98 with t < years for t <= years
RECURSIVE PushYearsShort(_, _, _, _)
PushYearsShort(cfs, t, years, benefitEnergy) ==
  IF t < years THEN PushYearsShort(Append(cfs, benefitEnergy), t + 1, years, benefitEnergy)
  ELSE cfs

\* lines 96-98: for (t = 1; t <= years; t++) cfs.push(benefitEnergy)
RECURSIVE PushYears(_, _, _, _)
PushYears(cfs, t, years, benefitEnergy) ==
  IF t <= years THEN PushYears(Append(cfs, benefitEnergy), t + 1, years, benefitEnergy)
  ELSE cfs

\* buildCashflows with the loop stopping one year early
buildCashflowsShort(params) ==
  LET capex == BAdd(BAdd(Big(params.capGeo), Big(params.capInd)), Big(params.capPv))
      cfs == <<BAdd(BNeg(capex), Big(params.benefitTax))>>
  IN PushYearsShort(cfs, 1, params.years.n, Big(params.benefitEnergy))

\* for a finite years; with years = Infinity the loop has no end
buildCashflows(params) ==
  LET capex == BAdd(BAdd(Big(params.capGeo), Big(params.capInd)), Big(params.capPv))
      cfs == <<BAdd(BNeg(capex), Big(params.benefitTax))>>
  IN PushYears(cfs, 1, params.years.n, Big(params.benefitEnergy))

(***************************************************************************)
(* The form  (src/app.js 103-138)                                          *)
(***************************************************************************)
\* The text of an input: a decimal numeral n/d ("num"), the empty text, a
\* text that is no number ("junk": abc, undefined, NaN) or "Infinity".
TNum(n, d) == [k |-> "num", n |-> n, d |-> d]

TEmpty == [k |-> "empty", n |-> 0, d |-> 1]

TJunk == [k |-> "junk", n |-> 0, d |-> 1]

TInfinity == [k |-> "inf", n |-> 1, d |-> 1]

Keys ==
  {"capGeo", "capInd", "capPv", "benefitTax", "benefitEnergy", "discountRatePct",
   "years", "baseYear"}

\* the element that shows a key of the record
ElementId(key) == IF key = "discountRatePct" THEN "discountRate" ELSE key

Ids == {ElementId(key) : key \in Keys}

DEFAULTS ==
  [capGeo |-> JFin(4314, 1), capInd |-> JFin(2331, 1), capPv |-> JFin(0, 1),
   benefitTax |-> JFin(4818, 1), benefitEnergy |-> JFin(337, 1),
   discountRatePct |-> JFin(45, 10), years |-> JFin(25, 1), baseYear |-> JFin(2025, 1)]

\* Number(text)
Number(text) ==
  CASE text.k = "num" -> JFin(text.n, text.d)
    [] text.k = "empty" -> JFin(0, 1)
    [] text.k = "junk" -> JNaN
    [] text.k = "inf" -> JInf(1)

\* the text an input holds after element.value = x
String(x) ==
  CASE x.k = "fin" -> TNum(x.n, x.d)
    [] x.k = "nan" -> TJunk
    [] x.k = "inf" -> (IF x.n > 0 THEN TInfinity ELSE TJunk)
    [] x.k = "undef" -> TJunk
    [] x.k = "null" -> TEmpty
    [] x.k = "str" -> TJunk

\* x || y for numbers: NaN and 0 are falsy
OrElse(x, y) == IF x.k = "nan" \/ (x.k = "fin" /\ x.n = 0) THEN y ELSE x

\* Math.floor(x)
Floor(x) == IF x.k = "fin" THEN JFin(x.n \div x.d, 1) ELSE x

\* Math.max(1, x)
MaxOne(x) ==
  CASE x.k = "nan" -> JNaN
    [] x.k = "inf" -> (IF x.n > 0 THEN x ELSE JFin(1, 1))
    [] x.k = "fin" -> (IF x.n < x.d THEN JFin(1, 1) ELSE x)

\* Math.round(x * p / q) for a finite x: the nearest integer, halves upward
RoundTimes(x, p, q) == JFin((2 * x.n * p + x.d * q) \div (2 * x.d * q), 1)

\* lines 116-127
readInputs(fields) ==
  [capGeo |-> OrElse(Number(fields["capGeo"]), JFin(0, 1)),
   capInd |-> OrElse(Number(fields["capInd"]), JFin(0, 1)),
   capPv |-> OrElse(Number(fields["capPv"]), JFin(0, 1)),
   benefitTax |-> OrElse(Number(fields["benefitTax"]), JFin(0, 1)),
   benefitEnergy |-> OrElse(Number(fields["benefitEnergy"]), JFin(0, 1)),
   discountRatePct |-> OrElse(Number(fields["discountRate"]), JFin(0, 1)),
   years |-> MaxOne(Floor(OrElse(Number(fields["years"]), JFin(1, 1)))),
   baseYear |-> Floor(OrElse(Number(fields["baseYear"]), DEFAULTS.baseYear))]

\* lines 129-138: the form after writeInputs(v)
writeInputs(v) ==
  [id \in Ids |-> String(v[IF id = "discountRate" THEN "discountRatePct" ELSE id])]

(***************************************************************************)
(* computeAndRender  (src/app.js 216-265)                                  *)
(***************************************************************************)
\* percent / 100 as a rate
RateOfPercent(pct) == CASE (pct.n * 100) % pct.d = 0 -> RDec4((pct.n * 100) \div pct.d)

\* lines 234-240 and 244-249: the running sums of a series of values
RECURSIVE RunningSum(_, _, _)
RunningSum(xs, j, acc) ==
  IF j > Len(xs) THEN <<>>
  ELSE <<VAdd(acc, xs[j])>> \o RunningSum(xs, j + 1, VAdd(acc, xs[j]))

NoView ==
  [state |-> "none", v |-> DEFAULTS, r |-> RNaN, cfs |-> <<>>, yearLabels |-> <<>>,
   cum |-> <<>>, dcf |-> <<>>, dcum |-> <<>>, npvVal |-> VNaN, pb |-> VNaN]

\* What a call of computeAndRender leaves on the page, for the form `fields`.
\* With years = Infinity the loop of buildCashflows never ends and nothing is
\* shown: the page hangs.  The IRR shown is irr(cfs), see KpiIrr.
computeAndRender(fields) ==
  LET v == readInputs(fields)
      r == RateOfPercent(v.discountRatePct)
      cfs == buildCashflows([capGeo |-> v.capGeo, capInd |-> v.capInd, capPv |-> v.capPv,
                             benefitTax |-> v.benefitTax,
                             benefitEnergy |-> v.benefitEnergy, years |-> v.years])
      dcf == discountedCashflows(r, cfs)
  IN IF v.years.k # "fin" THEN [NoView EXCEPT !.state = "hung", !.v = v, !.r = r]
     ELSE [state |-> "shown", v |-> v, r |-> r, cfs |-> cfs,
           yearLabels |-> [j \in 1..Len(cfs) |-> v.baseYear.n + (j - 1)],
           cum |-> RunningSum([j \in 1..Len(cfs) |-> VInt(cfs[j])], 1, VZero),
           dcf |-> dcf,
           dcum |-> RunningSum(dcf, 1, VZero),
           npvVal |-> npv(r, cfs),
           pb |-> paybackPeriod(cfs)]

(***************************************************************************)
(* State.                                                                  *)
(*   irrIn, irrSt : the argument of a call of irr and the call's position  *)
(*                  and locals (lo, hi, flo, fhi, i, the value returned)   *)
(*   pbIn, pbSt   : the same for a call of paybackPeriod                   *)
(*   fields       : the text of each input of the form, by element id      *)
(*   storage      : what localStorage holds under STORAGE_KEY              *)
(*   view         : what the last computeAndRender read, built and showed  *)
(*   event        : the last handler run, the alert it raised and whether  *)
(*                  it ran computeAndRender                                *)
(*   clicks       : the number of handlers run so far                      *)
(***************************************************************************)
VARIABLES irrIn, irrSt, pbIn, pbSt, fields, storage, view, event, clicks

irrVars == <<irrIn, irrSt>>

pbVars == <<pbIn, pbSt>>

uiVars == <<fields, storage, view, event, clicks>>

vars == <<irrIn, irrSt, pbIn, pbSt, fields, storage, view, event, clicks>>

\* the IRR that computeAndRender shows (line 252)
KpiIrr == irr(view.cfs)

NoEvent == [handler |-> "none", alert |-> "none", rendered |-> FALSE]

\* What localStorage holds under STORAGE_KEY: nothing ("absent"), a text
\* JSON.parse rejects ("corrupt"), the text null ("null"), or the text of an
\* object ("object") with the values v of its keys (JUndefined: no such key).
NoStorage == [k |-> "absent", v |-> DEFAULTS]

Stored(v) == [k |-> "object", v |-> v]

\* JSON.stringify then JSON.parse of a number: NaN and the infinities are null
Json(x) == IF x.k \in {"nan", "inf"} THEN JNull ELSE x

\* the stored text is that of a ProjectParameters record: every key a finite
\* number, years an integer >= 1, baseYear an integer
WellFormed(st) ==
  /\ st.k = "object"
  /\ \A key \in Keys : st.v[key].k = "fin"
  /\ st.v.years.d = 1 /\ st.v.years.n >= 1
  /\ st.v.baseYear.d = 1

UiIdle ==
  /\ fields = writeInputs(DEFAULTS)
  /\ storage = NoStorage
  /\ view = NoView
  /\ event = NoEvent
  /\ clicks = 0

IrrIdle == IrrState("idle", IrrLo, IrrHi, VZero, VZero, 0, RNaN)

PbIdle == PbState("idle", 0, BZero, BZero, VNaN)

\* a sequence of small integers as a series of amounts
Amounts(s) == [j \in 1..Len(s) |-> BFromInt(s[j])]

\* every amount of the series times 10^p
Scaled(cashflows, p) == [j \in 1..Len(cashflows) |-> BTimesPow10(cashflows[j], p)]

SeqsUpTo(S, n) == UNION {[1..m -> S] : m \in 0..n}

(***************************************************************************)
(* SpecIrr: one call of irr on a series drawn from a bounded set, a step   *)
(* per pass of the bisection loop.                                         *)
(***************************************************************************)
IrrMaxLen == 3

IrrMaxAmt == 1

IrrBigAmt == 100

IrrScale == 40

\* every series of small amounts
IrrSmallInputs == {Amounts(s) : s \in SeqsUpTo(-IrrMaxAmt..IrrMaxAmt, IrrMaxLen)}

\* one amount, then one or two equal amounts, of unequal sizes
IrrBigInputs ==
  LET A == {-IrrBigAmt, -1, 1, IrrBigAmt}
  IN {Amounts(<<a, b>>) : a \in A, b \in A} \cup {Amounts(<<a, b, b>>) : a \in A, b \in A}

\* and the series of two amounts in units 10^IrrScale times smaller
IrrInputs ==
  IrrSmallInputs \cup IrrBigInputs
    \cup {Scaled(c, IrrScale) : c \in {x \in IrrSmallInputs \cup IrrBigInputs : Len(x) = 2}}

InitIrr ==
  /\ irrIn \in IrrInputs
  /\ irrSt = [IrrIdle EXCEPT !.pc = "start"]
  /\ pbIn = <<>>
  /\ pbSt = PbIdle
  /\ UiIdle

irrEnter ==
  /\ irrSt.pc = "start"
  /\ irrSt' = IrrStart(irrIn)
  /\ UNCHANGED <<irrIn, pbVars, uiVars>>

irrLoop ==
  /\ irrSt.pc = "loop"
  /\ IrrLoopTest(irrSt)
  /\ irrSt' = IrrIterate(irrIn, irrSt)
  /\ UNCHANGED <<irrIn, pbVars, uiVars>>

irrLoopEnd ==
  /\ irrSt.pc = "loop"
  /\ ~IrrLoopTest(irrSt)
  /\ irrSt' = IrrExhausted(irrSt)
  /\ UNCHANGED <<irrIn, pbVars, uiVars>>

NextIrr == irrEnter \/ irrLoop \/ irrLoopEnd

SpecIrr == InitIrr /\ [][NextIrr]_vars

(***************************************************************************)
(* Claims about irr, checked under SpecIrr.                                *)
(***************************************************************************)
IrrReturned == irrSt.pc \in {"ret28", "ret29", "ret30", "ret37", "ret43", "ret44", "ret53"}

AllNonNegative(cashflows) == \A j \in 1..Len(cashflows) : cashflows[j].s >= 0

\* one negative period-0 outlay followed by constant positive inflows
IsProject(cashflows) ==
  /\ Len(cashflows) >= 2
  /\ cashflows[1].s < 0
  /\ cashflows[2].s > 0
  /\ \A j \in 2..Len(cashflows) : cashflows[j] = cashflows[2]

\* C4: for every series whose elements are all non-negative, irr returns the
\* sentinel NaN, never a numeric rate.
C4_NonNegativeGivesNaN ==
  (IrrReturned /\ AllNonNegative(irrIn)) => irrSt.ret.k = "nan"

C9_Budget ==
  /\ irrSt.i <= MaxIter
  /\ irrSt.pc \in {"ret43", "ret44"} => irrSt.i < MaxIter
  /\ irrSt.pc \in {"start", "loop", "ret28", "ret29", "ret30", "ret37", "ret43", "ret44", "ret53"}
  /\ IrrReturned => irrSt.ret.k \in {"fin", "nan"}
  /\ irrSt.pc = "ret53" =>
       /\ irrSt.i = MaxIter
       /\ irrSt.ret.k = "fin"
       /\ irrSt.ret = Mid(irrSt.lo, irrSt.hi)
       /\ RCmp(irrSt.lo, irrSt.ret) < 0
       /\ RCmp(irrSt.ret, irrSt.hi) < 0

\* the number of steps a call can still take
IrrStepsLeft(st) ==
  IF st.pc = "start" THEN MaxIter + 2
  ELSE IF st.pc = "loop" THEN MaxIter + 1 - st.i
  ELSE 0

\* C9: irr always ends, and raises nothing: every step of a call brings it
\* nearer to a return (so at most 120 midpoints are evaluated), the value
\* returned is a rate or NaN, and after 120 passes without |f(mid)| < 1e-8 it
\* is the midpoint of the final bracket, a rate and not NaN.
C9_TerminatesWithinBudget ==
  /\ []C9_Budget
  /\ [][IrrStepsLeft(irrSt') < IrrStepsLeft(irrSt) /\ IrrStepsLeft(irrSt') >= 0]_vars

C9_Witness == irrSt.pc = "ret53" /\ irrSt.i = MaxIter

PbMaxLen == 4

PbMaxAmt == 3

PbInputs ==
  {Amounts(s) : s \in SeqsUpTo(-PbMaxAmt..PbMaxAmt, PbMaxLen)}
    \cup {Amounts(<<100, 50>>), Amounts(<<-100, 40, 40, 40>>), Amounts(<<-100, 10, 10>>)}

InitPayback ==
  /\ pbIn \in PbInputs
  /\ pbSt = [PbIdle EXCEPT !.pc = "start"]
  /\ irrIn = <<>>
  /\ irrSt = IrrIdle
  /\ UiIdle

pbEnter ==
  /\ pbSt.pc = "start"
  /\ pbSt' = PbStart(pbIn)
  /\ UNCHANGED <<pbIn, irrVars, uiVars>>

pbLoop ==
  /\ pbSt.pc = "loop"
  /\ pbSt.t < Len(pbIn)
  /\ pbSt' = PbIterate(pbIn, pbSt)
  /\ UNCHANGED <<pbIn, irrVars, uiVars>>

pbLoopEnd ==
  /\ pbSt.pc = "loop"
  /\ pbSt.t >= Len(pbIn)
  /\ pbSt' = PbNever(pbSt)
  /\ UNCHANGED <<pbIn, irrVars, uiVars>>

NextPayback == pbEnter \/ pbLoop \/ pbLoopEnd

SpecPayback == InitPayback /\ [][NextPayback]_vars

(***************************************************************************)
(* Claims about paybackPeriod, checked under SpecPayback.                  *)
(***************************************************************************)
PbReturned == pbSt.pc \in {"ret59", "ret60", "ret67", "ret70", "ret73"}

\* S[0] + ... + S[t] as an integer, for small series (t counted from 0)
RECURSIVE PrefixSum(_, _)
PrefixSum(S, t) == IF t < 0 THEN BZero ELSE BAdd(PrefixSum(S, t - 1), S[t + 1])

\* the periods at which the running total is >= 0 for the first time
FirstRecovered(S) ==
  {t \in 0..(Len(S) - 1) :
     /\ PrefixSum(S, t).s >= 0
     /\ \A u \in 0..(t - 1) : PrefixSum(S, u).s < 0}

C3_PaybackSentinel ==
  PbReturned =>
    IF Len(pbIn) = 0 THEN pbSt.ret.k = "nan"
    ELSE /\ pbSt.ret.k = "nan" <=> \A t \in 0..(Len(pbIn) - 1) : PrefixSum(pbIn, t).s < 0
         /\ pbSt.ret.k # "nan" => (isFinite(pbSt.ret) /\ VCmp(pbSt.ret, VZero) >= 0)
         /\ pbIn[1].s >= 0 => (isFinite(pbSt.ret) /\ VEq(pbSt.ret, VZero))

\* the example of the specification: [-100, 10, 10] is never recovered
C3_Witness ==
  /\ pbSt.pc = "ret73"
  /\ pbIn = Amounts(<<-100, 10, 10>>)
  /\ pbSt.ret.k = "nan"

(***************************************************************************)
(* SpecCalc: one computeAndRender (the Apply button) on a form drawn from  *)
(* a bounded set of numeric contents.                                      *)
(***************************************************************************)
CalcMaxAmt == 2

CalcMaxYears == 3

\* discount rates in percent: 0, 10, 4.5, -100 (1 + rate = 0), -150, 100
CalcPercents == {JFin(0, 1), JFin(10, 1), JFin(45, 10), JFin(-100, 1), JFin(-150, 1)}

CalcForms ==
  {writeInputs([capGeo |-> JFin(g, 1), capInd |-> JFin(i, 1), capPv |-> JFin(p, 1),
                benefitTax |-> JFin(x, 1), benefitEnergy |-> JFin(e, 1),
                discountRatePct |-> pct, years |-> JFin(y, 1),
                baseYear |-> DEFAULTS.baseYear]) :
     g \in 0..CalcMaxAmt, i \in 0..1, p \in 0..1,
     x \in -CalcMaxAmt..CalcMaxAmt, e \in -CalcMaxAmt..CalcMaxAmt,
     pct \in CalcPercents, y \in 1..CalcMaxYears}

InitCalc ==
  /\ fields \in CalcForms
  /\ storage = NoStorage
  /\ view = NoView
  /\ event = NoEvent
  /\ clicks = 0
  /\ irrIn = <<>>
  /\ irrSt = IrrIdle
  /\ pbIn = <<>>
  /\ pbSt = PbIdle

calcApply ==
  /\ view.state = "none"
  /\ view' = computeAndRender(fields)
  /\ event' = [handler |-> "computeAndRender", alert |-> "none", rendered |-> TRUE]
  /\ clicks' = clicks + 1
  /\ UNCHANGED <<fields, storage, irrVars, pbVars>>

NextCalc == calcApply

SpecCalc == InitCalc /\ [][NextCalc]_vars

(***************************************************************************)
(* Claims about buildCashflows, npv and discountedCashflows, checked under *)
(* SpecCalc.                                                               *)
(***************************************************************************)
\* C1: for every parameter record with integer years >= 1 buildCashflows
\* returns a series of length years+1 whose element 0 is
\* -(capGeo+capInd+capPv)+benefitTax and whose elements 1..years are
\* benefitEnergy.
C1_CashflowShape ==
  view.state = "shown" =>
    LET v == view.v
    IN /\ v.years.k = "fin" /\ v.years.d = 1 /\ v.years.n >= 1
       /\ Len(view.cfs) = v.years.n + 1
       /\ view.cfs[1] = BFromInt(-(v.capGeo.n + v.capInd.n + v.capPv.n) + v.benefitTax.n)
       /\ \A t \in 1..v.years.n : view.cfs[t + 1] = BFromInt(v.benefitEnergy.n)

\* all capex and benefits zero, the longest horizon
C1_Witness ==
  /\ view.state = "shown"
  /\ view.v.years.n = CalcMaxYears
  /\ view.cfs = [j \in 1..(CalcMaxYears + 1) |-> BZero]

\* x[1] + (x[2] + (... + x[n])), summed from the far end
RECURSIVE SumValues(_, _)
SumValues(xs, j) == IF j > Len(xs) THEN VZero ELSE VAdd(xs[j], SumValues(xs, j + 1))

\* C6: npv(rate, S) is the sum of discountedCashflows(rate, S), so the NPV
\* shown by computeAndRender is the last element of the cumulative
\* discounted series it shows; and npv(0, S) is the plain sum of S.
C6_NpvIsDiscountedSum ==
  view.state = "shown" =>
    /\ VSame(npv(view.r, view.cfs), SumValues(discountedCashflows(view.r, view.cfs), 1))
    /\ VSame(view.npvVal, view.dcum[Len(view.dcum)])
    /\ Len(view.dcum) = Len(view.cfs)
    /\ view.r = RDec4(0) =>
         VSame(view.npvVal, VInt(PrefixSum(view.cfs, Len(view.cfs) - 1)))

C6_Witness ==
  /\ view.state = "shown"
  /\ view.r = RDec4(1000)
  /\ Len(view.cfs) = CalcMaxYears + 1
  /\ view.cfs[2].s > 0
  /\ isFinite(view.npvVal)
  /\ ~VEq(view.npvVal, VInt(PrefixSum(view.cfs, Len(view.cfs) - 1)))

(***************************************************************************)
(* Spec: the page.  DOMContentLoaded runs resetDefaults (line 327); then   *)
(* the user clicks buttons and changes inputs (lines 329-341), each event  *)
(* running its handler to the end.  A page whose computeAndRender does not *)
(* return takes no further event.                                          *)
(***************************************************************************)
MaxClicks == 2

\* the records found in storage when the page opens
StoredRecords ==
  {[DEFAULTS EXCEPT !.years = JFin(2, 1), !.benefitEnergy = JFin(3000, 1)],
   [DEFAULTS EXCEPT !.years = JInf(1)],
   [DEFAULTS EXCEPT !.years = JString],
   [key \in Keys |-> JUndefined]}

InitialStorage ==
  {NoStorage, [NoStorage EXCEPT !.k = "corrupt"], [NoStorage EXCEPT !.k = "null"]}
    \cup {Stored(v) : v \in StoredRecords}

\* what the user can type into an input: <<element id, text>>
InputChoices ==
  ({"years"} \X {TNum(2, 1), TNum(5, 2), TNum(0, 1), TNum(-3, 1), TEmpty, TJunk, TInfinity})
    \cup ({"discountRate"} \X {TNum(0, 1), TNum(-100, 1)})
    \cup ({"benefitEnergy"} \X {TNum(0, 1), TJunk})
    \cup ({"capPv"} \X {TNum(15, 1)})

Init ==
  /\ fields = writeInputs(DEFAULTS)
  /\ view = computeAndRender(writeInputs(DEFAULTS))
  /\ event = [handler |-> "resetDefaults", alert |-> "none", rendered |-> TRUE]
  /\ storage \in InitialStorage
  /\ clicks = 0
  /\ irrIn = <<>>
  /\ irrSt = IrrIdle
  /\ pbIn = <<>>
  /\ pbSt = PbIdle

\* an event is taken
Handles(handler) ==
  /\ view.state # "hung"
  /\ clicks < MaxClicks
  /\ clicks' = clicks + 1
  /\ UNCHANGED <<irrVars, pbVars>>

\* the handler leaves the form as f and ends with computeAndRender()
Renders(handler, f) ==
  /\ fields' = f
  /\ view' = computeAndRender(f)
  /\ event' = [handler |-> handler, alert |-> "none", rendered |-> TRUE]

\* the handler ends with the alert and without computeAndRender()
Alerts(handler, alert) ==
  /\ event' = [handler |-> handler, alert |-> alert, rendered |-> FALSE]
  /\ UNCHANGED <<fields, view>>

\* btnApply (line 329)
apply ==
  /\ Handles("computeAndRender")
  /\ Renders("computeAndRender", fields)
  /\ UNCHANGED storage

\* a change event of an input (lines 340-341)
inputChange ==
  \E c \in InputChoices :
    /\ Handles("change")
    /\ fields[c[1]] # c[2]
    /\ Renders("change", [fields EXCEPT ![c[1]] = c[2]])
    /\ UNCHANGED storage

resetDefaults ==
  /\ Handles("resetDefaults")
  /\ Renders("resetDefaults", writeInputs(DEFAULTS))
  /\ UNCHANGED storage

saveScenario ==
  /\ Handles("saveScenario")
  /\ storage' = Stored([key \in Keys |-> Json(readInputs(fields)[key])])
  /\ Alerts("saveScenario", "saved")

loadScenario ==
  /\ Handles("loadScenario")
  /\ CASE storage.k = "absent" -> Alerts("loadScenario", "nothing saved")
       [] storage.k \in {"corrupt", "null"} -> Alerts("loadScenario", "load failed")
       [] storage.k = "object" -> Renders("loadScenario", writeInputs(storage.v))
  /\ UNCHANGED storage

applyCapex10 ==
  LET v == readInputs(fields)
  IN /\ Handles("applyCapex10")
     /\ Renders("applyCapex10",
                writeInputs([v EXCEPT !.capGeo = RoundTimes(v.capGeo, 11, 10),
                                      !.capInd = RoundTimes(v.capInd, 11, 10),
                                      !.capPv = RoundTimes(v.capPv, 11, 10)]))
     /\ UNCHANGED storage

applyEnergyDown20 ==
  LET v == readInputs(fields)
  IN /\ Handles("applyEnergyDown20")
     /\ Renders("applyEnergyDown20",
                writeInputs([v EXCEPT !.benefitEnergy = RoundTimes(v.benefitEnergy, 8, 10)]))
     /\ UNCHANGED storage

applyTaxZero ==
  LET v == readInputs(fields)
  IN /\ Handles("applyTaxZero")
     /\ Renders("applyTaxZero", writeInputs([v EXCEPT !.benefitTax = JFin(0, 1)]))
     /\ UNCHANGED storage

Next ==
  \/ apply
  \/ inputChange
  \/ resetDefaults
  \/ saveScenario
  \/ loadScenario
  \/ applyCapex10
  \/ applyEnergyDown20
  \/ applyTaxZero

Spec == Init /\ [][Next]_vars

(***************************************************************************)
(* Claims about the page, checked under Spec.                              *)
(***************************************************************************)
\* C7: after any sequence of UI actions, whatever the form fields or the
\* stored record contain, every call of buildCashflows made by
\* computeAndRender receives a years value that is an integer >= 1.
C7_YearsIntegerAtLeastOne ==
  view.state # "none" =>
    /\ view.v.years.k = "fin"
    /\ view.v.years.d = 1
    /\ view.v.years.n >= 1

\* C8: whenever the stored record is absent or is not a well-formed
\* ProjectParameters record, loadScenario reports the failure, leaves the
\* form inputs unchanged and does not run computeAndRender.
C8_LoadRejectsMalformed ==
  [][(clicks' = clicks + 1 /\ event'.handler = "loadScenario" /\ ~WellFormed(storage))
       => /\ event'.alert \in {"nothing saved", "load failed"}
          /\ ~event'.rendered
          /\ fields' = fields
          /\ view' = view]_vars

====
